---- MODULE Spec2Model ----
(***************************************************************************)
(* Model of schemareader/tableFilters.go: applyTableFilters, the per-table *)
(* overrides applied to an introspected Table, and the two RowModCallback  *)
(* closures it installs (rhnerrata, susesaltpillar).                       *)
(*                                                                         *)
(* A Table is a record; UniqueIndexes and UnexportColumns are Go maps and  *)
(* are modelled as functions whose DOMAIN is the set of keys; References   *)
(* is a slice and is modelled as a sequence.  RowModCallback is a function *)
(* value in Go and is modelled by a tag naming the closure ("" is nil).    *)
(* The maps of a Table are allocated by the introspection layer: none is   *)
(* the nil map.                                                            *)
(***************************************************************************)
EXTENDS Integers, Sequences, FiniteSets, TLC

VARIABLES
    input,      \* the Table as handed over by the introspection layer
    table,      \* the Table as it is now
    prev,       \* the Table before the latest applyTableFilters call
    applied,    \* number of applyTableFilters calls made on the table
    row0,       \* the row handed to the latest RowModCallback call
    row,        \* the row as that call left it (the slice is changed in place)
    outcome     \* "idle", "returned", or "panic" (a failed type assertion)

vars == <<input, table, prev, applied, row0, row, outcome>>

----------------------------------------------------------------------------
(* Bounds *)

MaxApply == 2
MaxRefs == 3
MaxBlobLen == 6
MaxRowLen == 3

----------------------------------------------------------------------------
(* Go maps *)

EmptyMap == [k \in {} |-> TRUE]

\* m[k] = v on a Go map: adds the key or overwrites its entry
MapSet(m, k, v) == [x \in DOMAIN m \cup {k} |-> IF x = k THEN v ELSE m[x]]

\* append(m[name].Columns, ...): a missing key reads as the zero UniqueIndex,
\* whose Columns is the nil slice
IndexColumns(UniqueIndexes, name) ==
    IF name \in DOMAIN UniqueIndexes THEN UniqueIndexes[name].Columns ELSE <<>>

----------------------------------------------------------------------------
(* applyTableFilters *)

VirtualIndexName == "virtual_main_unique_index"

SetPKSequence(t, seq) == [t EXCEPT !.PKSequence = seq]

\* variant: the virtual index is put into a fresh map, dropping the real indexes
SetVirtualIndexFreshMap(t, virtualIndexColumns) ==
    [t EXCEPT
        !.UniqueIndexes = MapSet(EmptyMap, VirtualIndexName,
            [Name |-> VirtualIndexName, Columns |-> virtualIndexColumns]),
        !.MainUniqueIndexName = VirtualIndexName]

\* variant: an entry already stored under VirtualIndexName is kept
SetVirtualIndexKeepPrior(t, virtualIndexColumns) ==
    [t EXCEPT
        !.UniqueIndexes =
            IF VirtualIndexName \in DOMAIN t.UniqueIndexes
            THEN t.UniqueIndexes
            ELSE MapSet(t.UniqueIndexes, VirtualIndexName,
                    [Name |-> VirtualIndexName, Columns |-> virtualIndexColumns]),
        !.MainUniqueIndexName = VirtualIndexName]

\* table.UniqueIndexes[VirtualIndexName] = UniqueIndex{...}
\* table.MainUniqueIndexName = VirtualIndexName
SetVirtualIndex(t, virtualIndexColumns) ==
    [t EXCEPT
        !.UniqueIndexes = MapSet(t.UniqueIndexes, VirtualIndexName,
            [Name |-> VirtualIndexName, Columns |-> virtualIndexColumns]),
        !.MainUniqueIndexName = VirtualIndexName]

\* unexportColumns := make(map[string]bool); unexportColumns[c] = true ...
SetUnexportColumns(t, columns) ==
    [t EXCEPT !.UnexportColumns = [c \in columns |-> TRUE]]

\* table.UniqueIndexes[name] = UniqueIndex{Name: name,
\*     Columns: append(table.UniqueIndexes[name].Columns, "type")}
AppendTypeColumn(t, name) ==
    [t EXCEPT !.UniqueIndexes = MapSet(t.UniqueIndexes, name,
        [Name |-> name,
         Columns |-> Append(IndexColumns(t.UniqueIndexes, name), "type")])]

ActivationKeyReference ==
    [TableName |-> "rhnactivationkey",
     ColumnMapping |-> ("token_id" :> "reg_token_id")]

\* variant: an edge to rhnregtoken is dropped instead of replaced
RECURSIVE RetargetReferencesDrop(_)
RetargetReferencesDrop(References) ==
    IF References = <<>> THEN <<>>
    ELSE IF Head(References).TableName = "rhnregtoken"
         THEN RetargetReferencesDrop(Tail(References))
         ELSE <<Head(References)>> \o RetargetReferencesDrop(Tail(References))

\* the loop over table.References of the suseimageprofile case
RECURSIVE RetargetReferences(_)
RetargetReferences(References) ==
    IF References = <<>> THEN <<>>
    ELSE IF Head(References).TableName = "rhnregtoken"
         THEN <<ActivationKeyReference>> \o RetargetReferences(Tail(References))
         ELSE <<Head(References)>> \o RetargetReferences(Tail(References))

\* variant: a default branch that clears the sequence name
PassThroughReset(t) == [t EXCEPT !.PKSequence = ""]

\* no case of the switch matches: return table
PassThrough(t) == t

applyTableFilters(t) ==
    CASE t.Name = "rhnchecksumtype" -> SetPKSequence(t, "rhn_checksum_id_seq")
      [] t.Name = "rhnchecksum" -> SetPKSequence(t, "rhnchecksum_seq")
      [] t.Name = "rhnpackagearch" -> SetPKSequence(t, "rhn_package_arch_id_seq")
      [] t.Name = "rhnchannelarch" -> SetPKSequence(t, "rhn_channel_arch_id_seq")
      [] t.Name = "rhnpackagename" -> SetPKSequence(t, "RHN_PKG_NAME_SEQ")
      [] t.Name = "rhnpackagenevra" -> SetPKSequence(t, "rhn_pkgnevra_id_seq")
      [] t.Name = "rhnpackagesource" -> SetPKSequence(t, "rhn_package_source_id_seq")
      [] t.Name = "rhnpackagekey" -> SetPKSequence(t, "rhn_pkey_id_seq")
      [] t.Name = "rhnpackageextratag" ->
            SetVirtualIndex(t, <<"package_id", "key_id">>)
      [] t.Name = "rhnpackageevr" ->
            AppendTypeColumn(
                AppendTypeColumn(
                    SetUnexportColumns(SetPKSequence(t, "rhn_pkg_evr_seq"), {"type"}),
                    "rhn_pe_v_r_e_uq"),
                "rhn_pe_v_r_uq")
      [] t.Name = "rhnpackage" ->
            SetVirtualIndex(SetPKSequence(t, "RHN_PACKAGE_ID_SEQ"),
                <<"name_id", "evr_id", "package_arch_id", "checksum_id", "org_id">>)
      [] t.Name = "rhnpackagechangelogdata" ->
            SetVirtualIndex(SetPKSequence(t, "rhn_pkg_cld_id_seq"),
                <<"name", "text", "time">>)
      [] t.Name = "rhnpackagechangelogrec" -> SetPKSequence(t, "rhn_pkg_cl_id_seq")
      [] t.Name = "rhnpackagecapability" ->
            SetVirtualIndex(SetPKSequence(t, "RHN_PKG_CAPABILITY_ID_SEQ"),
                <<"name", "version">>)
      [] t.Name = "rhnconfigfiletype" -> SetVirtualIndex(t, <<"label">>)
      [] t.Name = "rhnconfigfile" ->
            SetUnexportColumns(t, {"latest_config_revision_id"})
      [] t.Name = "rhnconfigcontent" ->
            SetVirtualIndex(t, <<"contents", "file_size", "checksum_id",
                "is_binary", "delim_start", "delim_end", "created">>)
      [] t.Name = "suseimageinfo" ->
            SetVirtualIndex(
                SetUnexportColumns(t, {"build_action_id", "inspect_action_id",
                    "build_server_id", "log"}),
                <<"name", "version", "image_type", "image_arch_id", "org_id",
                  "curr_revision_num">>)
      [] t.Name = "suseimageinfochannel" ->
            SetVirtualIndex(t, <<"channel_id", "image_info_id">>)
      [] t.Name = "suseimageprofile" ->
            [SetPKSequence(t, "suse_imgprof_prid_seq")
                EXCEPT !.References = RetargetReferences(t.References)]
      [] t.Name = "susekiwiprofile" -> SetVirtualIndex(t, <<"profile_id">>)
      [] t.Name = "susedockerfileprofile" ->
            SetVirtualIndex(t, <<"profile_id", "path">>)
      [] t.Name = "rhnerrata" ->
            [t EXCEPT !.MainUniqueIndexName = "rhn_errata_adv_org_uq",
                      !.RowModCallback = "rhnerrata"]
      [] t.Name = "susesaltpillar" ->
            SetVirtualIndex([t EXCEPT !.RowModCallback = "susesaltpillar"],
                <<"server_id", "group_id", "org_id", "category">>)
      [] t.Name = "suseimagefile" ->
            SetVirtualIndex(SetPKSequence(t, "suse_image_file_id_seq"),
                <<"image_info_id", "file">>)
      [] OTHER -> PassThrough(t)

----------------------------------------------------------------------------
(* Rows and the RowModCallback closures                                    *)
(*                                                                         *)
(* A row is a sequence of sqlUtil.RowDataStructure: ColumnName, Value and  *)
(* the value GetInitialValue returns.  Value is an interface{}: a record   *)
(* of its dynamic type and its content.  A string is the sequence of its   *)
(* characters.  A []byte is a sequence of pieces, each piece standing for  *)
(* the characters it spells: "https://", "http://", "/os-images/",         *)
(* "{SERVER_FQDN}", and "a" for one character other than '/'.              *)
(***************************************************************************)

Nil == [type |-> "nil", v |-> <<>>]
String(chars) == [type |-> "string", v |-> chars]
Bytes(pieces) == [type |-> "[]byte", v |-> pieces]
Int64(digits) == [type |-> "int64", v |-> digits]

\* row.GetInitialValue()
GetInitialValue(column) == column.initialValue

\* strings.HasPrefix(s, prefix)
HasPrefix(s, prefix) ==
    Len(s) >= Len(prefix) /\ SubSeq(s, 1, Len(prefix)) = prefix

\* variant: severity_id is set to nil instead of its initial value
RhnErrataRowModNil(value) ==
    [i \in 1..Len(value) |->
        IF value[i].ColumnName = "severity_id"
        THEN [value[i] EXCEPT !.Value = Nil]
        ELSE value[i]]

\* the closure of the rhnerrata case
RhnErrataRowMod(value) ==
    [i \in 1..Len(value) |->
        IF value[i].ColumnName = "severity_id"
        THEN [value[i] EXCEPT !.Value = GetInitialValue(value[i])]
        ELSE value[i]]

\* the pieces [^/] matches whole
NoSlash == {"a", "{SERVER_FQDN}"}

\* [^/]+ from position j: the first position it cannot take
RECURSIVE HostEnd(_, _)
HostEnd(b, j) ==
    IF j <= Len(b) /\ b[j] \in NoSlash THEN HostEnd(b, j + 1) ELSE j

\* `https://[^/]+/os-images/` at position i: the position of the last piece
\* of the match, 0 if there is none.  [^/]+ is followed by '/', so it takes
\* the whole run of characters up to the next '/'; a run that ends inside
\* "https://" or "http://" is followed by "//", not by "/os-images/".
MatchEnd(b, i) ==
    IF b[i] = "https://"
    THEN LET e == HostEnd(b, i + 1)
         IN  IF e > i + 1 /\ e <= Len(b) /\ b[e] = "/os-images/" THEN e ELSE 0
    ELSE 0

\* repl
Replacement == <<"https://", "{SERVER_FQDN}", "/os-images/">>

RECURSIVE ReplaceFrom(_, _, _)
ReplaceFrom(b, i, all) ==
    IF i > Len(b) THEN <<>>
    ELSE IF MatchEnd(b, i) > 0
         THEN Replacement \o (IF all THEN ReplaceFrom(b, MatchEnd(b, i) + 1, all)
                              ELSE SubSeq(b, MatchEnd(b, i) + 1, Len(b)))
         ELSE <<b[i]>> \o ReplaceFrom(b, i + 1, all)

\* variant: only the leftmost match is replaced
ReplaceFirst(b) == ReplaceFrom(b, 1, FALSE)

\* re.ReplaceAll(b, repl): leftmost matches, one after the other
ReplaceAll(b) == ReplaceFrom(b, 1, TRUE)

\* variant: the loop stops at the first Image category, so a pillar column
\* after it is not found
RECURSIVE ScanRowBreak(_, _, _)
ScanRowBreak(value, i, found) ==
    IF i > Len(value) THEN found
    ELSE IF value[i].ColumnName = "category"
         THEN IF value[i].Value.type # "string"
              THEN [found EXCEPT !.panic = TRUE]
              ELSE IF HasPrefix(value[i].Value.v, <<"I", "m", "a", "g", "e">>)
                   THEN [found EXCEPT !.isImagePillar = TRUE]
                   ELSE ScanRowBreak(value, i + 1, found)
         ELSE IF value[i].ColumnName = "pillar"
              THEN ScanRowBreak(value, i + 1, [found EXCEPT !.pillarColumn = i])
              ELSE ScanRowBreak(value, i + 1, found)

\* the for loop of the susesaltpillar closure from column i on;
\* column.Value.(string) panics unless the category value is a string
RECURSIVE ScanRow(_, _, _)
ScanRow(value, i, found) ==
    IF i > Len(value) THEN found
    ELSE IF value[i].ColumnName = "category"
         THEN IF value[i].Value.type # "string"
              THEN [found EXCEPT !.panic = TRUE]
              ELSE IF HasPrefix(value[i].Value.v, <<"I", "m", "a", "g", "e">>)
                   THEN ScanRow(value, i + 1, [found EXCEPT !.isImagePillar = TRUE])
                   ELSE ScanRow(value, i + 1, found)
         ELSE IF value[i].ColumnName = "pillar"
              THEN ScanRow(value, i + 1, [found EXCEPT !.pillarColumn = i])
              ELSE ScanRow(value, i + 1, found)

\* the closure of the susesaltpillar case; pillarColumn := 0 is the first
\* column, position 1 here.  value[pillarColumn].Value.([]byte) panics unless
\* that value is a []byte.
SuseSaltPillarRowMod(value) ==
    LET found == ScanRow(value, 1,
                    [isImagePillar |-> FALSE, pillarColumn |-> 1, panic |-> FALSE])
        p == found.pillarColumn
    IN  IF found.panic THEN [outcome |-> "panic", value |-> value]
        ELSE IF ~found.isImagePillar THEN [outcome |-> "returned", value |-> value]
        ELSE IF value[p].Value.type # "[]byte"
             THEN [outcome |-> "panic", value |-> value]
             ELSE [outcome |-> "returned",
                   value |-> [value EXCEPT ![p].Value = Bytes(ReplaceAll(value[p].Value.v))]]

\* table.RowModCallback(value, table)
RowModCallback(t, value) ==
    CASE t.RowModCallback = "rhnerrata" ->
            [outcome |-> "returned", value |-> RhnErrataRowMod(value)]
      [] t.RowModCallback = "susesaltpillar" -> SuseSaltPillarRowMod(value)

----------------------------------------------------------------------------
(* The tables handed to applyTableFilters *)

SwitchCases ==
    {"rhnchecksumtype", "rhnchecksum", "rhnpackagearch", "rhnchannelarch",
     "rhnpackagename", "rhnpackagenevra", "rhnpackagesource", "rhnpackagekey",
     "rhnpackageextratag", "rhnpackageevr", "rhnpackage",
     "rhnpackagechangelogdata", "rhnpackagechangelogrec",
     "rhnpackagecapability", "rhnconfigfiletype", "rhnconfigfile",
     "rhnconfigcontent", "suseimageinfo", "suseimageinfochannel",
     "suseimageprofile", "susekiwiprofile", "susedockerfileprofile",
     "rhnerrata", "susesaltpillar", "suseimagefile"}

\* table names without a case, as the introspection layer also produces them
OtherTables == {"rhnchannel", "rhnregtoken", "RHNPACKAGE"}

TableNames == SwitchCases \cup OtherTables

\* index names the code reads or writes, with column lists a schema may hold
IndexSamples ==
    [virtual_main_unique_index |-> {<<"id">>},
     rhn_errata_adv_org_uq |-> {<<"advisory", "org_id">>},
     rhn_pe_v_r_e_uq |-> {<<"version", "release", "epoch">>,
                          <<"version", "release", "epoch", "type">>},
     rhn_pe_v_r_uq |-> {<<"version", "release">>}]

IndexNames == DOMAIN IndexSamples

IndexColumnLists == UNION {IndexSamples[n] : n \in IndexNames}

\* every map from some of the index names to an index of that name
IndexMaps ==
    UNION { { [n \in D |-> [Name |-> n, Columns |-> c[n]]] :
                c \in {f \in [D -> IndexColumnLists] :
                        \A n \in D : f[n] \in IndexSamples[n]} }
          : D \in SUBSET IndexNames }

ReferenceSamples ==
    {[TableName |-> "rhnregtoken", ColumnMapping |-> ("token_id" :> "id")],
     [TableName |-> "rhnactivationkey", ColumnMapping |-> ("key_id" :> "id")],
     [TableName |-> "web_customer", ColumnMapping |-> ("org_id" :> "id")]}

SeqsUpTo(S, n) == UNION {[1..k -> S] : k \in 0..n}

\* tables that differ in their unique indexes and identity key
IndexInputs ==
    {[Name |-> name, PKSequence |-> seq, UniqueIndexes |-> ui,
      MainUniqueIndexName |-> main, UnexportColumns |-> unexport,
      References |-> refs, RowModCallback |-> ""] :
        name \in TableNames, seq \in {"", "introspected_seq"},
        ui \in IndexMaps, main \in {""} \cup IndexNames,
        unexport \in {EmptyMap, [c \in {"log"} |-> TRUE]},
        refs \in {<<>>, <<[TableName |-> "rhnregtoken",
                           ColumnMapping |-> ("token_id" :> "id")]>>}}

\* tables that differ in their outgoing references
ReferenceInputs ==
    {[Name |-> name, PKSequence |-> "", UniqueIndexes |-> EmptyMap,
      MainUniqueIndexName |-> "", UnexportColumns |-> EmptyMap,
      References |-> refs, RowModCallback |-> ""] :
        name \in TableNames, refs \in SeqsUpTo(ReferenceSamples, MaxRefs)}

\* Invariant of the data model: the identity key names an existing index
MainIndexPresent(t) ==
    t.MainUniqueIndexName = "" \/ t.MainUniqueIndexName \in DOMAIN t.UniqueIndexes

\* the introspection layer picks the identity key among the indexes it found
InputTables == {t \in IndexInputs \cup ReferenceInputs : MainIndexPresent(t)}

----------------------------------------------------------------------------
(* Specification of the table overrides *)

Init ==
    /\ input \in InputTables
    /\ table = input
    /\ prev = input
    /\ applied = 0
    /\ row0 = <<>>
    /\ row = <<>>
    /\ outcome = "idle"

\* table = applyTableFilters(table)
ApplyTableFilters ==
    /\ applied < MaxApply
    /\ prev' = table
    /\ table' = applyTableFilters(table)
    /\ applied' = applied + 1
    /\ UNCHANGED <<input, row0, row, outcome>>

Next == ApplyTableFilters

Spec == Init /\ [][Next]_vars

----------------------------------------------------------------------------
(* Specification of the row export of the two tables with a callback *)

Chars(n) ==
    CASE n = 1 -> <<"I", "m", "a", "g", "e", "-", "S", "o", "m", "e", "t", "h", "i", "n", "g">>
      [] n = 2 -> <<"I", "m", "a", "g", "e">>
      [] n = 3 -> <<"I", "m", "a", "g">>
      [] n = 4 -> <<"i", "m", "a", "g", "e", "-", "x">>
      [] n = 5 -> <<"N", "o", "I", "m", "a", "g", "e">>

Pieces == {"https://", "http://", "a", "/os-images/"}

Cell(name, val, init) == [ColumnName |-> name, Value |-> val, initialValue |-> init]

\* cells a row may hold, by column
CellSamples ==
    {Cell("category", String(Chars(n)), Nil) : n \in 1..5}
    \cup {Cell("category", Nil, Nil)}
    \cup {Cell("pillar", v, Nil) :
            v \in {Bytes(<<>>), Bytes(<<"https://", "a", "/os-images/", "a">>),
                   Bytes(<<"a", "https://", "a", "a", "/os-images/",
                           "http://", "a", "/os-images/">>),
                   String(<<"{", "}">>)}}
    \cup {Cell("severity_id", Int64(<<"3">>), Nil),
          Cell("severity_id", Int64(<<"3">>), Int64(<<"1">>)),
          Cell("severity_id", Nil, Nil)}
    \cup {Cell("id", Int64(<<"7">>), Int64(<<"7">>)),
          Cell("id", Bytes(<<"https://", "a", "/os-images/">>), Nil)}

DistinctNames(value) ==
    \A i, j \in 1..Len(value) : value[i].ColumnName = value[j].ColumnName => i = j

\* rows of every shape: any columns in any order, no column twice
ShapeRows == {value \in SeqsUpTo(CellSamples, MaxRowLen) : DistinctNames(value)}

\* pillar second, first and last; category before it and after it
Rotations == {<<1, 2, 3>>, <<2, 3, 1>>, <<3, 1, 2>>}

\* rows of susesaltpillar with every pillar content
BlobRows ==
    {[i \in 1..3 |->
        <<Cell("category", String(Chars(n)), Nil),
          Cell("pillar", Bytes(b), Nil),
          Cell("id", Bytes(<<"https://", "a", "/os-images/">>), Nil)>>[p[i]]] :
        n \in {1, 3}, b \in SeqsUpTo(Pieces, MaxBlobLen), p \in Rotations}

Rows == ShapeRows \cup BlobRows

RowTables ==
    {t \in ReferenceInputs :
        t.Name \in {"rhnerrata", "susesaltpillar"} /\ t.References = <<>>}

InitRow ==
    /\ input \in RowTables
    /\ table = input
    /\ prev = input
    /\ applied = 0
    /\ row0 = <<>>
    /\ row = <<>>
    /\ outcome = "idle"

\* the export of one row of the table: value = table.RowModCallback(value, table)
ExportRow ==
    /\ table.RowModCallback # ""
    /\ outcome = "idle"
    /\ \E value \in Rows :
        /\ row0' = value
        /\ row' = RowModCallback(table, value).value
        /\ outcome' = RowModCallback(table, value).outcome
    /\ UNCHANGED <<input, table, prev, applied>>

\* the row is written (or the panic has ended the export) and the next one is due
RowDone ==
    /\ outcome # "idle"
    /\ row0' = <<>>
    /\ row' = <<>>
    /\ outcome' = "idle"
    /\ UNCHANGED <<input, table, prev, applied>>

\* the table is passed through applyTableFilters once, before any row of it
\* is exported
PrepareTable == applied = 0 /\ ApplyTableFilters

NextRow == PrepareTable \/ ExportRow \/ RowDone

SpecRow == InitRow /\ [][NextRow]_vars

----------------------------------------------------------------------------
(* Properties of applyTableFilters, checked under Spec *)

SameOverridden(a, b) ==
    /\ a.PKSequence = b.PKSequence
    /\ a.UniqueIndexes = b.UniqueIndexes
    /\ a.MainUniqueIndexName = b.MainUniqueIndexName
    /\ a.UnexportColumns = b.UnexportColumns
    /\ a.References = b.References

\* C1: for every table name with a case, a second applyTableFilters call
\* returns the Table the first one returned: the same PKSequence,
\* UniqueIndexes, MainUniqueIndexName, UnexportColumns and References.
C1_Idempotent ==
    (applied >= 2 /\ table.Name \in SwitchCases) => SameOverridden(table, prev)

\* C2: a Table whose Name is none of the switch cases is returned equal to
\* the input in every field, RowModCallback included.
C2_OtherTableUnchanged ==
    (applied >= 1 /\ input.Name \notin SwitchCases) => table = input

C2_Witness ==
    /\ applied >= 1
    /\ input.Name = "RHNPACKAGE"
    /\ input.PKSequence # ""
    /\ DOMAIN input.UniqueIndexes # {}
    /\ table = input

HandPickedColumns ==
    [rhnpackageextratag |-> <<"package_id", "key_id">>,
     rhnpackage |-> <<"name_id", "evr_id", "package_arch_id", "checksum_id", "org_id">>,
     rhnpackagechangelogdata |-> <<"name", "text", "time">>,
     rhnpackagecapability |-> <<"name", "version">>,
     rhnconfigfiletype |-> <<"label">>,
     rhnconfigcontent |-> <<"contents", "file_size", "checksum_id", "is_binary",
                            "delim_start", "delim_end", "created">>,
     suseimageinfo |-> <<"name", "version", "image_type", "image_arch_id",
                         "org_id", "curr_revision_num">>,
     suseimageinfochannel |-> <<"channel_id", "image_info_id">>,
     susekiwiprofile |-> <<"profile_id">>,
     susedockerfileprofile |-> <<"profile_id", "path">>,
     susesaltpillar |-> <<"server_id", "group_id", "org_id", "category">>,
     suseimagefile |-> <<"image_info_id", "file">>]

\* C3: for each of the twelve tables with a virtual index, after
\* applyTableFilters MainUniqueIndexName is "virtual_main_unique_index", that
\* name is a key of UniqueIndexes, and the entry under it has that Name and
\* exactly the hand-picked columns of the table, whatever was stored there.
C3_VirtualIndex ==
    (applied >= 1 /\ table.Name \in DOMAIN HandPickedColumns) =>
        /\ table.MainUniqueIndexName = "virtual_main_unique_index"
        /\ "virtual_main_unique_index" \in DOMAIN table.UniqueIndexes
        /\ table.UniqueIndexes["virtual_main_unique_index"] =
                [Name |-> "virtual_main_unique_index",
                 Columns |-> HandPickedColumns[table.Name]]

C3_Witness ==
    /\ applied = 1
    /\ table.Name = "suseimageinfo"
    /\ "virtual_main_unique_index" \in DOMAIN input.UniqueIndexes
    /\ input.UniqueIndexes["virtual_main_unique_index"].Columns = <<"id">>
    /\ input.MainUniqueIndexName = "rhn_errata_adv_org_uq"
    /\ table.UniqueIndexes["virtual_main_unique_index"].Columns = HandPickedColumns.suseimageinfo

Targets(refs, name) == {i \in 1..Len(refs) : refs[i].TableName = name}

\* C4 as stated: for suseimageprofile and every input References, the
\* returned References has no edge to rhnregtoken and exactly one edge to
\* rhnactivationkey, with ColumnMapping {token_id -> reg_token_id}; the other
\* input edges are returned unchanged, in their order.
C4_ExactlyOneRetargeted ==
    (applied >= 1 /\ table.Name = "suseimageprofile") =>
        /\ Targets(table.References, "rhnregtoken") = {}
        /\ Cardinality(Targets(table.References, "rhnactivationkey")) = 1
        /\ \A i \in Targets(table.References, "rhnactivationkey") :
                table.References[i].ColumnMapping = ("token_id" :> "reg_token_id")
        /\ Len(table.References) = Len(input.References)
        /\ \A i \in 1..Len(input.References) :
                input.References[i].TableName # "rhnregtoken" =>
                    table.References[i] = input.References[i]

\* C4 amended: for suseimageprofile the returned References has the length
\* of the input and no edge to rhnregtoken; where the input edge targets
\* rhnregtoken it holds the edge to rhnactivationkey with ColumnMapping
\* {token_id -> reg_token_id}, one per such input edge, and everywhere else
\* the input edge unchanged.
C4_Retargeted ==
    (applied >= 1 /\ table.Name = "suseimageprofile") =>
        /\ Targets(table.References, "rhnregtoken") = {}
        /\ Len(table.References) = Len(input.References)
        /\ \A i \in 1..Len(input.References) :
                table.References[i] =
                    IF input.References[i].TableName = "rhnregtoken"
                    THEN [TableName |-> "rhnactivationkey",
                          ColumnMapping |-> ("token_id" :> "reg_token_id")]
                    ELSE input.References[i]

C4_Witness ==
    /\ applied >= 1
    /\ table.Name = "suseimageprofile"
    /\ Len(input.References) = 3
    /\ Targets(input.References, "rhnregtoken") = {2}
    /\ Targets(input.References, "rhnactivationkey") = {}
    /\ Targets(table.References, "rhnactivationkey") = {2}

\* C8: if the input's MainUniqueIndexName is empty or a key of its
\* UniqueIndexes, the same is true of the Table applyTableFilters returns,
\* for every table name, rhnerrata included.
C8_MainIndexPresent ==
    (applied >= 1 /\ MainIndexPresent(prev)) => MainIndexPresent(table)

EvrIndexes == {"rhn_pe_v_r_e_uq", "rhn_pe_v_r_uq"}

\* C10: applyTableFilters keeps Name and every key of UniqueIndexes; it
\* keeps every entry under a key other than VirtualIndexName, except that
\* for rhnpackageevr the entries rhn_pe_v_r_e_uq and rhn_pe_v_r_uq become
\* their former columns followed by "type" (just "type" if there was none);
\* it keeps References except for suseimageprofile, UnexportColumns except
\* for rhnpackageevr, rhnconfigfile and suseimageinfo, and sets no
\* RowModCallback except for rhnerrata and susesaltpillar.
C10_Frame ==
    applied >= 1 =>
        /\ table.Name = prev.Name
        /\ DOMAIN prev.UniqueIndexes \subseteq DOMAIN table.UniqueIndexes
        /\ \A k \in DOMAIN prev.UniqueIndexes \ {"virtual_main_unique_index"} :
                (table.Name = "rhnpackageevr" /\ k \in EvrIndexes)
                \/ table.UniqueIndexes[k] = prev.UniqueIndexes[k]
        /\ table.Name = "rhnpackageevr" =>
                \A k \in EvrIndexes :
                    /\ k \in DOMAIN table.UniqueIndexes
                    /\ table.UniqueIndexes[k].Name = k
                    /\ table.UniqueIndexes[k].Columns =
                        (IF k \in DOMAIN prev.UniqueIndexes
                         THEN prev.UniqueIndexes[k].Columns ELSE <<>>) \o <<"type">>
        /\ table.Name # "suseimageprofile" => table.References = prev.References
        /\ table.Name \notin {"rhnpackageevr", "rhnconfigfile", "suseimageinfo"} =>
                table.UnexportColumns = prev.UnexportColumns
        /\ table.Name \notin {"rhnerrata", "susesaltpillar"} =>
                table.RowModCallback = ""

C10_Witness ==
    /\ applied = 1
    /\ table.Name = "rhnpackageevr"
    /\ DOMAIN prev.UniqueIndexes = {"rhn_pe_v_r_e_uq", "rhn_errata_adv_org_uq"}
    /\ DOMAIN table.UniqueIndexes =
            {"rhn_pe_v_r_e_uq", "rhn_errata_adv_org_uq", "rhn_pe_v_r_uq"}
    /\ table.UniqueIndexes["rhn_pe_v_r_uq"].Columns = <<"type">>
    /\ table.UniqueIndexes["rhn_pe_v_r_e_uq"].Columns =
            <<"version", "release", "epoch", "type">>
    /\ prev.References # <<>>

----------------------------------------------------------------------------
(* Properties of the RowModCallback closures, checked under SpecRow *)

HasColumn(value, name) == \E i \in 1..Len(value) : value[i].ColumnName = name

ColumnOf(value, name) == CHOOSE i \in 1..Len(value) : value[i].ColumnName = name

StartsWithImage(s) ==
    /\ Len(s) >= 5
    /\ <<s[1], s[2], s[3], s[4], s[5]>> = <<"I", "m", "a", "g", "e">>

\* the occurrences in b of protocol + host + "/os-images/", as <<first, last>>
\* positions; a host is one or more characters, none of them '/'
Occurrences(b, protocols) ==
    {o \in (1..Len(b)) \X (1..Len(b)) :
        /\ b[o[1]] \in protocols
        /\ o[2] > o[1] + 1
        /\ \A k \in (o[1] + 1)..(o[2] - 1) : b[k] = "a"
        /\ b[o[2]] = "/os-images/"}

RECURSIVE Concat(_)
Concat(parts) == IF parts = <<>> THEN <<>> ELSE Head(parts) \o Concat(Tail(parts))

\* b with each of these occurrences replaced and nothing else changed
Rewritten(b, protocols) ==
    Concat([k \in 1..Len(b) |->
        IF \E o \in Occurrences(b, protocols) : o[1] = k
        THEN <<"https://", "{SERVER_FQDN}", "/os-images/">>
        ELSE IF \E o \in Occurrences(b, protocols) : o[1] < k /\ k <= o[2]
             THEN <<>>
             ELSE <<b[k]>>])

PillarRewrite(protocols) ==
    (/\ outcome = "returned"
     /\ table.RowModCallback = "susesaltpillar"
     /\ HasColumn(row0, "category")
     /\ HasColumn(row0, "pillar")) =>
        LET c == ColumnOf(row0, "category")
            p == ColumnOf(row0, "pillar")
        IN  /\ Len(row) = Len(row0)
            /\ \A i \in 1..Len(row0) : i # p => row[i] = row0[i]
            /\ row[p].ColumnName = "pillar"
            /\ row[p].initialValue = row0[p].initialValue
            /\ row[p].Value =
                    IF StartsWithImage(row0[c].Value.v)
                    THEN [type |-> "[]byte", v |-> Rewritten(row0[p].Value.v, protocols)]
                    ELSE row0[p].Value

\* C5 as stated: when category starts with "Image", every occurrence in
\* pillar of a protocol, a host and "/os-images/" is replaced by
\* "https://{SERVER_FQDN}/os-images/", whatever the protocol, and nothing
\* else in the pillar or the row changes; otherwise the row is unchanged.
C5_AnyProtocolRewritten == PillarRewrite({"https://", "http://"})

\* C5 amended: when category starts with "Image", every occurrence in pillar
\* of "https://", a host of one or more characters other than '/', and
\* "/os-images/" is replaced by "https://{SERVER_FQDN}/os-images/" and
\* nothing else in the pillar or the row changes (a URL of another protocol
\* stays as it is); otherwise the row is unchanged.
C5_HttpsRewritten == PillarRewrite({"https://"})

C5_Witness ==
    /\ outcome = "returned"
    /\ table.RowModCallback = "susesaltpillar"
    /\ Len(row0) = 3
    /\ row0[3].ColumnName = "pillar"
    /\ row0[2].ColumnName = "category"
    /\ StartsWithImage(row0[2].Value.v)
    /\ row0[1].Value.v = <<"https://", "a", "/os-images/">>
    /\ row[1] = row0[1]
    /\ row0[3].Value.v =
            <<"https://", "a", "/os-images/", "https://", "a", "/os-images/">>
    /\ row[3].Value.v =
            <<"https://", "{SERVER_FQDN}", "/os-images/",
              "https://", "{SERVER_FQDN}", "/os-images/">>

\* C6: the rhnerrata callback leaves in every column named severity_id the
\* value GetInitialValue gives for it, whatever its value was, and keeps the
\* name, value and position of every other column and the length of the row.
C6_SeverityReset ==
    (outcome = "returned" /\ table.RowModCallback = "rhnerrata") =>
        /\ Len(row) = Len(row0)
        /\ \A i \in 1..Len(row0) :
            /\ row[i].ColumnName = row0[i].ColumnName
            /\ row[i].initialValue = row0[i].initialValue
            /\ row[i].Value =
                    IF row0[i].ColumnName = "severity_id"
                    THEN row0[i].initialValue
                    ELSE row0[i].Value

C6_Witness ==
    /\ outcome = "returned"
    /\ table.RowModCallback = "rhnerrata"
    /\ Len(row0) = 3
    /\ row0[2].ColumnName = "severity_id"
    /\ row0[2].Value.v = <<"3">>
    /\ row0[2].initialValue.v = <<"1">>
    /\ row[2].Value.v = <<"1">>
    /\ row0[1].ColumnName = "pillar"

\* C7: a callback whose named column is not in the row leaves the row as it
\* was (or fails) and rewrites no other column: susesaltpillar without a
\* pillar column changes no column, not even the first, and rhnerrata
\* without severity_id returns the row unchanged.
C7_FailClosed ==
    (/\ outcome # "idle"
     /\ \/ table.RowModCallback = "susesaltpillar" /\ ~HasColumn(row0, "pillar")
        \/ table.RowModCallback = "rhnerrata" /\ ~HasColumn(row0, "severity_id"))
    => row = row0

Injective(f) == \A i, j \in DOMAIN f : f[i] = f[j] => i = j

Permute(value, p) == [i \in 1..Len(value) |-> value[p[i]]]

\* C9: both callbacks commute with every reordering of the columns of a row
\* that holds the named columns: run on the reordered row, the callback
\* returns the reordered result.
C9_OrderIndependent ==
    (/\ outcome = "returned"
     /\ \/ /\ table.RowModCallback = "susesaltpillar"
           /\ HasColumn(row0, "category")
           /\ HasColumn(row0, "pillar")
        \/ /\ table.RowModCallback = "rhnerrata"
           /\ HasColumn(row0, "severity_id"))
    => \A p \in {f \in [1..Len(row0) -> 1..Len(row0)] : Injective(f)} :
            RowModCallback(table, Permute(row0, p)) =
                [outcome |-> "returned", value |-> Permute(row, p)]

C9_Witness ==
    /\ outcome = "returned"
    /\ table.RowModCallback = "susesaltpillar"
    /\ Len(row0) = 3
    /\ row0[1].ColumnName = "pillar"
    /\ row0[2].ColumnName = "id"
    /\ row0[3].ColumnName = "category"
    /\ row[1].Value # row0[1].Value
    /\ row[2] = row0[2]

====
